---- MODULE Spec2Model ----
(***************************************************************************)
(* Model of the filesystem MCP server (artushin/mcp-files): the path guard *)
(* of read_file_contents, the ignore filter and tree builder of            *)
(* read_file_structure, and the query loop and output parser of            *)
(* grep_search.                                                            *)
(*                                                                         *)
(* Strings are sequences of one-character strings, so that the string and  *)
(* path functions of the Go library (Clean, Join, Rel, Base, Match,        *)
(* HasPrefix, Contains, Split, TrimSpace) are computed, not assumed.       *)
(***************************************************************************)
EXTENDS Integers, Sequences, FiniteSets, TLC

VARIABLES
    basePath,     \* config.BasePath: absolute and clean (validateConfig)
    maxFileSize,  \* config.MaxFileSize
    entries,      \* the directory tree below basePath: set of [path, dir, size]
    gitignore,    \* <basePath>/.gitignore: [present, lines]
    grepEnv,      \* what the grep process does for each pattern
    filter,       \* patterns of the GitignoreFilter the last structure call built
    request,      \* the last tool call
    response      \* its result

vars == <<basePath, maxFileSize, entries, gitignore, grepEnv, filter, request, response>>

----------------------------------------------------------------------------
(* Bounds of the model *)

\* longest file_path argument of read_file_contents
MaxPathLen == 5
\* largest file size the stat of read_file_contents reports
MaxStatSize == 3

----------------------------------------------------------------------------
(* package strings *)

Slash == "/"
Dot == <<".">>
DotDot == <<".", ".">>
Space == {" ", "\t", "\n", "\r"}
Digits == {"0", "1", "2", "3", "4", "5", "6", "7", "8", "9"}

\* strings.HasPrefix
HasPrefix(s, prefix) ==
    Len(prefix) <= Len(s) /\ SubSeq(s, 1, Len(prefix)) = prefix

\* strings.HasSuffix
HasSuffix(s, suffix) ==
    Len(suffix) <= Len(s) /\ SubSeq(s, Len(s) - Len(suffix) + 1, Len(s)) = suffix

\* strings.TrimSuffix
TrimSuffix(s, suffix) ==
    IF HasSuffix(s, suffix) THEN SubSeq(s, 1, Len(s) - Len(suffix)) ELSE s

\* strings.Contains
Contains(s, substr) ==
    \E i \in 0..(Len(s) - Len(substr)) : SubSeq(s, i + 1, i + Len(substr)) = substr

\* index of the first occurrence of character c in s, 0 if none
IndexOf(s, c) ==
    IF \E i \in 1..Len(s) : s[i] = c
    THEN CHOOSE i \in 1..Len(s) : s[i] = c /\ \A j \in 1..(i - 1) : s[j] # c
    ELSE 0

\* strings.Split(s, sep) for a one-character separator
RECURSIVE Split(_, _)
Split(s, c) ==
    LET i == IndexOf(s, c)
    IN  IF i = 0 THEN <<s>>
        ELSE <<SubSeq(s, 1, i - 1)>> \o Split(SubSeq(s, i + 1, Len(s)), c)

\* strings.Join(elems, sep) for a one-character separator
RECURSIVE StringsJoin(_, _)
StringsJoin(elems, c) ==
    IF elems = <<>> THEN <<>>
    ELSE IF Len(elems) = 1 THEN elems[1]
    ELSE elems[1] \o <<c>> \o StringsJoin(Tail(elems), c)

\* strings.TrimSpace
RECURSIVE TrimLeft(_)
TrimLeft(s) ==
    IF s # <<>> /\ s[1] \in Space THEN TrimLeft(Tail(s)) ELSE s

RECURSIVE TrimRight(_)
TrimRight(s) ==
    IF s # <<>> /\ s[Len(s)] \in Space THEN TrimRight(SubSeq(s, 1, Len(s) - 1)) ELSE s

TrimSpace(s) == TrimRight(TrimLeft(s))

----------------------------------------------------------------------------
(* package path/filepath (Unix) *)

\* the element stack filepath.Clean builds: "" and "." are dropped, ".."
\* removes the element before it, and is kept only in front of a relative path
RECURSIVE CleanElems(_, _, _)
CleanElems(elems, out, rooted) ==
    IF elems = <<>> THEN out
    ELSE LET e == Head(elems)
         IN  IF e = <<>> \/ e = Dot
             THEN CleanElems(Tail(elems), out, rooted)
             ELSE IF e = DotDot
             THEN IF out # <<>> /\ out[Len(out)] # DotDot
                  THEN CleanElems(Tail(elems), SubSeq(out, 1, Len(out) - 1), rooted)
                  ELSE IF rooted
                  THEN CleanElems(Tail(elems), out, rooted)
                  ELSE CleanElems(Tail(elems), Append(out, e), rooted)
             ELSE CleanElems(Tail(elems), Append(out, e), rooted)

\* the path filepath.Clean returns for the element stack out
CleanJoin(rooted, out) ==
    IF rooted THEN <<Slash>> \o StringsJoin(out, Slash)
    ELSE IF out = <<>> THEN Dot
    ELSE StringsJoin(out, Slash)

\* filepath.Clean
Clean(path) ==
    IF path = <<>> THEN Dot
    ELSE CleanJoin(path[1] = Slash,
                   CleanElems(Split(path, Slash), <<>>, path[1] = Slash))

\* filepath.Join of two elements: empty elements are ignored, the rest is
\* joined with a separator and cleaned
Join(a, b) ==
    IF a = <<>> /\ b = <<>> THEN <<>>
    ELSE IF a = <<>> THEN Clean(b)
    ELSE IF b = <<>> THEN Clean(a)
    ELSE Clean(a \o <<Slash>> \o b)

\* the elements of a cleaned path
PathElems(p) ==
    LET body == IF p # <<>> /\ p[1] = Slash THEN Tail(p) ELSE p
    IN  IF body = <<>> THEN <<>> ELSE Split(body, Slash)

\* length of the longest common prefix of two element lists
RECURSIVE CommonLen(_, _)
CommonLen(a, b) ==
    IF a # <<>> /\ b # <<>> /\ Head(a) = Head(b)
    THEN 1 + CommonLen(Tail(a), Tail(b))
    ELSE 0

\* filepath.IsAbs
IsAbs(p) == p # <<>> /\ p[1] = Slash

\* the elements filepath.Rel walks over: "." counts as the empty path
RelElems(p) == IF p = Dot THEN <<>> ELSE PathElems(p)

\* filepath.Rel past the common elements: restB and restT are what is left
\* of the base and of the target
RelFrom(restB, restT) ==
    IF restB # <<>> /\ restB[1] = DotDot THEN [err |-> TRUE, path |-> <<>>]
    ELSE [err |-> FALSE,
          path |-> StringsJoin([i \in 1..Len(restB) |-> DotDot] \o restT, Slash)]

\* filepath.Rel of two cleaned paths
RelCleaned(base, targ) ==
    IF targ = base THEN [err |-> FALSE, path |-> Dot]
    ELSE IF IsAbs(base) # IsAbs(targ) THEN [err |-> TRUE, path |-> <<>>]
    ELSE RelFrom(SubSeq(RelElems(base),
                        CommonLen(RelElems(base), RelElems(targ)) + 1,
                        Len(RelElems(base))),
                 SubSeq(RelElems(targ),
                        CommonLen(RelElems(base), RelElems(targ)) + 1,
                        Len(RelElems(targ))))

\* filepath.Rel: [err, path]
Rel(basepath, targpath) == RelCleaned(Clean(basepath), Clean(targpath))

\* the path without its trailing separators
RECURSIVE StripSlashes(_)
StripSlashes(p) ==
    IF p # <<>> /\ p[Len(p)] = Slash
    THEN StripSlashes(SubSeq(p, 1, Len(p) - 1)) ELSE p

LastElem(elems) == elems[Len(elems)]

\* filepath.Base of a non-empty path, its trailing separators stripped
BaseStripped(p) ==
    IF p = <<>> THEN <<Slash>> ELSE LastElem(Split(p, Slash))

\* filepath.Base
Base(path) ==
    IF path = <<>> THEN Dot ELSE BaseStripped(StripSlashes(path))

----------------------------------------------------------------------------
(* read_file_contents *)

NoRequest == [tool |-> "none"]
NoResponse == [isError |-> FALSE, kind |-> "none"]

\* validateFilePath with both guards left out: the argument is joined as it is
validateFilePathUnguarded(base, filePath) ==
    [ok |-> TRUE, path |-> Join(base, filePath), err |-> "nil"]

\* the second guard of validateFilePath: the joined path made relative to the
\* base directory must not lead out of it
validateResolved(fullPath, rel) ==
    IF rel.err \/ HasPrefix(rel.path, DotDot)
    THEN [ok |-> FALSE, path |-> <<>>, err |-> "path outside of allowed directory"]
    ELSE [ok |-> TRUE, path |-> fullPath, err |-> "nil"]

\* validateFilePath from the joined path on
validateJoined(base, fullPath) ==
    validateResolved(fullPath, Rel(base, fullPath))

\* validateFilePath from the cleaned path on
validateCleaned(base, cleanPath) ==
    IF Contains(cleanPath, DotDot)
    THEN [ok |-> FALSE, path |-> <<>>, err |-> "path traversal not allowed"]
    ELSE validateJoined(base, Join(base, cleanPath))

\* validateFilePath: [ok, path, err]
validateFilePath(base, filePath) == validateCleaned(base, Clean(filePath))

\* every string over an alphabet of length at most n
RECURSIVE StringsUpTo(_, _)
StringsUpTo(alphabet, n) ==
    IF n = 0 THEN {<<>>}
    ELSE LET shorter == StringsUpTo(alphabet, n - 1)
         IN  shorter \cup {Append(s, c) : s \in shorter, c \in alphabet}

\* the bytes of a file: a byte of text, and a byte that is not valid UTF-8
TextByte == "a"
InvalidByte == "xFF"

\* the UTF-8 bytes of U+FFFD
ReplacementChar == <<"xEF", "xBF", "xBD">>

\* what os.ReadFile can return
FileContents == StringsUpTo({TextByte, InvalidByte}, MaxStatSize)

\* the value a client decodes from json.Marshal of a Go string: the string
\* is coerced to valid UTF-8, every invalid byte replaced by U+FFFD
RECURSIVE MarshalString(_)
MarshalString(bytes) ==
    IF bytes = <<>> THEN <<>>
    ELSE (IF Head(bytes) = InvalidByte THEN ReplacementChar ELSE <<Head(bytes)>>)
         \o MarshalString(Tail(bytes))

\* what os.Stat and os.ReadFile find at a path: the file is missing, or
\* os.Stat reports a size and os.ReadFile, called later, fails or returns
\* bytes. Both calls are answered by the live filesystem, each at its own time.
StatOutcomes ==
    {[exists |-> FALSE, size |-> 0, readable |-> FALSE, content |-> <<>>]}
    \cup [exists : {TRUE}, size : 0..MaxStatSize, readable : {FALSE},
          content : {<<>>}]
    \cup [exists : {TRUE}, size : 0..MaxStatSize, readable : {TRUE},
          content : FileContents]

\* handleReadFileContents once validateFilePath has returned v
readValidated(v, maxSize, filePath, st) ==
    IF ~v.ok
    THEN [isError |-> TRUE, kind |-> "Invalid file path", err |-> v.err,
          touched |-> <<>>]
    ELSE IF ~st.exists
    THEN [isError |-> TRUE, kind |-> "File not found", touched |-> v.path]
    ELSE IF st.size > maxSize
    THEN [isError |-> TRUE, kind |-> "File too large", touched |-> v.path,
          stat_size |-> st.size]
    ELSE IF ~st.readable
    THEN [isError |-> TRUE, kind |-> "Failed to read file", touched |-> v.path]
    ELSE [isError |-> FALSE, kind |-> "contents", file_path |-> filePath,
          size_bytes |-> st.size, content |-> MarshalString(st.content),
          touched |-> v.path, read |-> st.content]

\* handleReadFileContents: the result for an argument (hasArg: file_path was
\* given as a string) and for what the filesystem holds at the resolved path.
\* touched is the path handed to os.Stat and os.ReadFile, <<>> if none was;
\* stat_size is the size in the too-large message, read the bytes os.ReadFile
\* returned.
handleReadFileContents(base, maxSize, hasArg, filePath, st) ==
    IF ~hasArg
    THEN [isError |-> TRUE, kind |-> "Missing required parameter", touched |-> <<>>]
    ELSE readValidated(validateFilePath(base, filePath), maxSize, filePath, st)

PathAlphabet == {"a", ".", Slash}

FilePaths == StringsUpTo(PathAlphabet, MaxPathLen)

ReadBasePaths == {<<Slash>>, <<Slash, "b">>}

\* largest configured max-file-size of the model
MaxCfgFileSize == 2

\* the read_file_contents calls of the model: file_path missing, or a string
ReadRequests ==
    {[tool |-> "read_file_contents", hasArg |-> FALSE, file_path |-> <<>>]}
    \cup [tool : {"read_file_contents"}, hasArg : {TRUE}, file_path : FilePaths]

\* a configured server and one read_file_contents call in flight
InitRead ==
    /\ basePath \in ReadBasePaths
    /\ maxFileSize \in 1..MaxCfgFileSize
    /\ entries = {}
    /\ gitignore = [present |-> FALSE, lines |-> <<>>]
    /\ grepEnv = <<>>
    /\ filter = <<>>
    /\ request \in ReadRequests
    /\ response = NoResponse

ReadFileContents ==
    /\ response = NoResponse
    /\ request.tool = "read_file_contents"
    /\ \E st \in StatOutcomes :
          response' = handleReadFileContents(basePath, maxFileSize, request.hasArg,
                                             request.file_path, st)
    /\ UNCHANGED <<basePath, maxFileSize, entries, gitignore, grepEnv, filter, request>>

NextRead == ReadFileContents

Spec == InitRead /\ [][NextRead]_vars

----------------------------------------------------------------------------
(* GitignoreFilter (filetree.go) *)

\* filepath.Match for patterns of literal characters, "*" and "?": "*"
\* matches any run of non-separator characters, "?" one of them
RECURSIVE Match(_, _)
Match(pattern, name) ==
    IF pattern = <<>> THEN name = <<>>
    ELSE IF pattern[1] = "*"
    THEN \/ Match(Tail(pattern), name)
         \/ name # <<>> /\ name[1] # Slash /\ Match(pattern, Tail(name))
    ELSE IF pattern[1] = "?"
    THEN name # <<>> /\ name[1] # Slash /\ Match(Tail(pattern), Tail(name))
    ELSE name # <<>> /\ name[1] = pattern[1] /\ Match(Tail(pattern), Tail(name))

GitName == <<".", "g", "i", "t">>
GitignoreName == <<".", "g", "i", "t", "i", "g", "n", "o", "r", "e">>

\* the patterns the filter starts with
SeedPatterns == <<GitName, GitName \o <<Slash>>>>

\* the scanner loop of NewGitignoreFilter over the lines of the ignore file,
\* with negation lines kept as patterns
RECURSIVE ScanLinesKeepingNegation(_)
ScanLinesKeepingNegation(lines) ==
    IF lines = <<>> THEN <<>>
    ELSE IF TrimSpace(Head(lines)) = <<>> \/ HasPrefix(TrimSpace(Head(lines)), <<"#">>)
    THEN ScanLinesKeepingNegation(Tail(lines))
    ELSE <<TrimSpace(Head(lines))>> \o ScanLinesKeepingNegation(Tail(lines))

\* the tests of the scanner loop on a trimmed line: empty lines, comments and
\* negation lines add no pattern
AddsPattern(line) ==
    /\ ~(line = <<>> \/ HasPrefix(line, <<"#">>))
    /\ ~HasPrefix(line, <<"!">>)

\* the scanner loop of NewGitignoreFilter over the lines of the ignore file
RECURSIVE ScanLines(_)
ScanLines(lines) ==
    IF lines = <<>> THEN <<>>
    ELSE IF AddsPattern(TrimSpace(Head(lines)))
    THEN <<TrimSpace(Head(lines))>> \o ScanLines(Tail(lines))
    ELSE ScanLines(Tail(lines))

\* NewGitignoreFilter: the pattern list for an ignore file [present, lines]
NewGitignoreFilter(gi) ==
    IF gi.present THEN SeedPatterns \o ScanLines(gi.lines) ELSE SeedPatterns

\* the test of a directory pattern, its trailing separator removed
DirPatternIgnores(dirPattern, relPath, fileName) ==
    \/ Match(dirPattern, fileName)
    \/ Contains(relPath, dirPattern \o <<Slash>>)

\* the test of a pattern with a separator against the trailing parts of the path
PartsMatch(pattern, pathParts) ==
    \E i \in 1..Len(pathParts) :
        Match(pattern, StringsJoin(SubSeq(pathParts, i, Len(pathParts)), Slash))

\* one iteration of the pattern loop of ShouldIgnore
PatternIgnores(pattern, relPath, fileName) ==
    IF HasSuffix(pattern, <<Slash>>)
    THEN DirPatternIgnores(TrimSuffix(pattern, <<Slash>>), relPath, fileName)
    ELSE \/ Match(pattern, fileName)
         \/ /\ Contains(pattern, <<Slash>>)
            /\ \/ Match(pattern, relPath)
               \/ PartsMatch(pattern, Split(relPath, Slash))

\* ShouldIgnore with the error test of filepath.Rel inverted: it fails open
\* for every path that can be made relative
ShouldIgnoreFailOpen(patterns, base, path) ==
    Rel(base, path).err

\* ShouldIgnore once filepath.Rel has returned rel and filepath.Base fileName
IgnoresRel(patterns, rel, fileName) ==
    IF rel.err THEN FALSE
    ELSE IF HasPrefix(rel.path, GitName) \/ Contains(rel.path, <<Slash>> \o GitName)
    THEN TRUE
    ELSE \E i \in 1..Len(patterns) : PatternIgnores(patterns[i], rel.path, fileName)

\* GitignoreFilter.ShouldIgnore
ShouldIgnore(patterns, base, path) ==
    IgnoresRel(patterns, Rel(base, path), Base(path))

----------------------------------------------------------------------------
(* read_file_structure (filetree.go) *)

\* names of the directory entries of the model, in the order of os.ReadDir
\* (sorted by name)
EntryNames ==
    << GitName,
       GitignoreName,
       <<"a", ".", "t", "x", "t">>,
       <<"s", "e", "c", "r", "e", "t">> >>

\* size of the files of the model
TreeFileSize == 1

\* the absolute path of the entry with the given element list, as the
\* repeated filepath.Join(dirPath, entry.Name()) of the walk builds it
RECURSIVE AbsPath(_, _)
AbsPath(base, elems) ==
    IF elems = <<>> THEN base
    ELSE Join(AbsPath(base, SubSeq(elems, 1, Len(elems) - 1)), elems[Len(elems)])

\* what the directory tree holds, the ignore file included
Listing(ents, gi) ==
    ents \cup (IF gi.present
               THEN {[path |-> <<GitignoreName>>, dir |-> FALSE]}
               ELSE {})

RECURSIVE Flatten(_)
Flatten(seqs) ==
    IF seqs = <<>> THEN <<>> ELSE Head(seqs) \o Flatten(Tail(seqs))

NilNode == [nil |-> TRUE]

\* relPath of a node: "" for the base directory
NodePath(rel) == IF rel = Dot THEN <<>> ELSE rel

\* what a recursive call adds to node.Children: nothing if it failed or
\* returned no node
ChildNodes(r) == IF r.err \/ r.node.nil THEN <<>> ELSE <<r.node>>

RECURSIVE buildFileTreeWithFilter(_, _, _, _, _)

\* one iteration of the loop over os.ReadDir(dirPath): found holds the entry
\* of the listing at childPath, if there is one
child(listing, failing, base, patterns, found, childPath) ==
    IF found = {} THEN <<>>
    ELSE IF ShouldIgnore(patterns, base, childPath) THEN <<>>
    ELSE ChildNodes(buildFileTreeWithFilter(listing, failing, base, patterns,
                                            CHOOSE x \in found : TRUE))

\* buildFileTreeWithFilter for an entry the filter lets pass
buildNode(listing, failing, base, patterns, e, dirPath) ==
    IF e.path \in failing
    THEN [err |-> TRUE, node |-> NilNode]
    ELSE [err |-> FALSE,
          node |-> [nil |-> FALSE,
                    name |-> Base(dirPath),
                    path |-> NodePath(Rel(base, dirPath).path),
                    type |-> IF e.dir THEN "directory" ELSE "file",
                    size |-> IF e.dir THEN 0 ELSE TreeFileSize,
                    children |->
                        IF e.dir
                        THEN Flatten([i \in 1..Len(EntryNames) |->
                                 child(listing, failing, base, patterns,
                                       {x \in listing :
                                           x.path = Append(e.path, EntryNames[i])},
                                       Join(dirPath, EntryNames[i]))])
                        ELSE <<>>]]

\* buildFileTreeWithFilter for the entry e of the listing: [err, node].
\* failing is the set of entry paths whose os.Stat or os.ReadDir fails.
buildFileTreeWithFilter(listing, failing, base, patterns, e) ==
    IF ShouldIgnore(patterns, base, AbsPath(base, e.path))
    THEN [err |-> FALSE, node |-> NilNode]
    ELSE buildNode(listing, failing, base, patterns, e, AbsPath(base, e.path))

\* the result of handleReadFileStructure once the walk has returned r
structureResult(base, r) ==
    IF r.err
    THEN [isError |-> TRUE, kind |-> "Failed to read file structure"]
    ELSE [isError |-> FALSE, kind |-> "structure", base_path |-> base,
          structure |-> r.node]

\* handleReadFileStructure; failing: the entry paths (<<>> is the base
\* directory) whose os.Stat or os.ReadDir fails
handleReadFileStructure(base, ents, gi, failing) ==
    structureResult(base,
        buildFileTreeWithFilter(Listing(ents, gi), failing, base,
                                NewGitignoreFilter(gi),
                                [path |-> <<>>, dir |-> TRUE]))

\* most entries below the base directory
MaxEntries == 3
\* most lines of the ignore file
MaxLines == 1

TreeBasePaths == {<<Slash, "b">>, <<Slash, "s", "e", "c", "r", "e", "t">>}

\* names given to new entries (the ignore file is written by its own action)
NewEntryNames == {EntryNames[i] : i \in 1..Len(EntryNames)} \ {GitignoreName}

\* lines written to the ignore file
IgnoreLines ==
    { <<"s", "e", "c", "r", "e", "t", Slash>>,
      <<"!", ".", "g", "i", "t">>,
      <<"*", ".", "t", "x", "t">>,
      <<"s", "e", "c", "r", "e", "t", Slash, "?", ".", "t", "x", "t">> }

InitTree ==
    /\ basePath \in TreeBasePaths
    /\ maxFileSize = 1
    /\ entries = {}
    /\ gitignore = [present |-> FALSE, lines |-> <<>>]
    /\ grepEnv = <<>>
    /\ filter = <<>>
    /\ request = [tool |-> "read_file_structure"]
    /\ response = NoResponse

\* the environment creates a file or a directory below the base directory
CreateEntry ==
    /\ response = NoResponse
    /\ Cardinality(entries) < MaxEntries
    /\ \E parent \in {<<>>} \cup {e.path : e \in {x \in entries : x.dir}},
          name \in NewEntryNames, dir \in BOOLEAN :
          /\ ~\E e \in entries : e.path = Append(parent, name)
          /\ entries' = entries \cup
                {[path |-> Append(parent, name), dir |-> dir]}
    /\ UNCHANGED <<basePath, maxFileSize, gitignore, grepEnv, filter, request, response>>

\* the environment creates the ignore file or appends a line to it
WriteGitignore ==
    /\ response = NoResponse
    /\ \/ /\ ~gitignore.present
          /\ gitignore' = [present |-> TRUE, lines |-> <<>>]
       \/ /\ gitignore.present
          /\ Len(gitignore.lines) < MaxLines
          /\ \E line \in IgnoreLines :
                gitignore' = [gitignore EXCEPT !.lines = Append(@, line)]
    /\ UNCHANGED <<basePath, maxFileSize, entries, grepEnv, filter, request, response>>

\* what can fail during one walk: nothing, or the reading of one directory
\* (the base directory, or one below it)
FailureSets(ents) ==
    {{}} \cup {{<<>>}} \cup {{e.path} : e \in {x \in ents : x.dir}}

ReadFileStructure ==
    /\ response = NoResponse
    /\ request.tool = "read_file_structure"
    /\ filter' = NewGitignoreFilter(gitignore)
    /\ \E failing \in FailureSets(entries) :
          response' = handleReadFileStructure(basePath, entries, gitignore, failing)
    /\ UNCHANGED <<basePath, maxFileSize, entries, gitignore, grepEnv, request>>

NextTree == CreateEntry \/ WriteGitignore \/ ReadFileStructure

SpecTree == InitTree /\ [][NextTree]_vars

----------------------------------------------------------------------------
(* The GitignoreFilter on its own: built from an ignore file, then asked *)

\* most lines of the ignore file the filter is built from
MaxFilterLines == 2

FilterLines ==
    { <<"s", "e", "c", "r", "e", "t", Slash>>,
      <<"!", "s", "e", "c", "r", "e", "t", Slash>>,
      <<" ", "!", "a", ".", "t", "x", "t">>,
      <<"a", ".", "t", "x", "t">>,
      <<"!">>,
      <<"#", "x">>,
      <<" ">> }

\* every sequence of at most n lines
RECURSIVE LinesUpTo(_, _)
LinesUpTo(lines, n) ==
    IF n = 0 THEN {<<>>}
    ELSE LET shorter == LinesUpTo(lines, n - 1)
         IN  shorter \cup {Append(s, l) : s \in shorter, l \in lines}

\* paths ShouldIgnore is asked about, relative to the base directory
ProbePaths ==
    { <<<<"a", ".", "t", "x", "t">>>>,
      <<<<"s", "e", "c", "r", "e", "t">>>>,
      <<<<"s", "e", "c", "r", "e", "t">>, <<"a", ".", "t", "x", "t">>>>,
      <<<<"b">>, <<"s", "e", "c", "r", "e", "t">>, <<"b">>>>,
      <<<<"b">>, GitName>>,
      <<<<"b">>>> }

InitFilter ==
    /\ basePath \in TreeBasePaths
    /\ maxFileSize = 1
    /\ entries = {}
    /\ gitignore \in
          {[present |-> FALSE, lines |-> <<>>]}
          \cup [present : {TRUE}, lines : LinesUpTo(FilterLines, MaxFilterLines)]
    /\ grepEnv = <<>>
    /\ filter = <<>>
    /\ request \in [tool : {"ShouldIgnore"}, path : ProbePaths]
    /\ response = NoResponse

\* filter := NewGitignoreFilter(basePath)
BuildFilter ==
    /\ filter = <<>>
    /\ filter' = NewGitignoreFilter(gitignore)
    /\ UNCHANGED <<basePath, maxFileSize, entries, gitignore, grepEnv, request, response>>

\* filter.ShouldIgnore(path)
AskFilter ==
    /\ filter # <<>>
    /\ response = NoResponse
    /\ response' = [isError |-> FALSE, kind |-> "ShouldIgnore",
                    ignored |-> ShouldIgnore(filter, basePath,
                                             AbsPath(basePath, request.path))]
    /\ UNCHANGED <<basePath, maxFileSize, entries, gitignore, grepEnv, filter, request>>

NextFilter == BuildFilter \/ AskFilter

SpecFilter == InitFilter /\ [][NextFilter]_vars

----------------------------------------------------------------------------
(* parseGrepOutput *)

Newline == "\n"
Colon == ":"

DigitSeq == <<"0", "1", "2", "3", "4", "5", "6", "7", "8", "9">>

\* strconv.Atoi of a string of digits (short enough not to overflow)
RECURSIVE Atoi(_)
Atoi(digits) ==
    IF digits = <<>> THEN 0
    ELSE 10 * Atoi(SubSeq(digits, 1, Len(digits) - 1))
         + (CHOOSE d \in 1..10 : DigitSeq[d] = digits[Len(digits)]) - 1

\* the characters the third group of lineRegex, [:|-], accepts
SeparatorClass == {Colon, "|", "-"}

\* the end of the longest run of digits that starts after index c, 0 if
\* there is none
DigitsEnd(line, c) ==
    IF c > 0 /\ c < Len(line) /\ line[c + 1] \in Digits
    THEN CHOOSE k \in (c + 1)..Len(line) :
            /\ \A j \in (c + 1)..k : line[j] \in Digits
            /\ k < Len(line) => line[k + 1] \notin Digits
    ELSE 0

\* the groups of lineRegex for a line whose first colon is at c and whose
\* digits end at d
Submatch(line, c, d) ==
    IF c > 1 /\ d > 0 /\ d < Len(line) /\ line[d + 1] \in SeparatorClass
    THEN [ok |-> TRUE,
          filePath |-> SubSeq(line, 1, c - 1),
          lineNumStr |-> SubSeq(line, c + 1, d),
          separator |-> line[d + 1],
          content |-> SubSeq(line, d + 2, Len(line))]
    ELSE [ok |-> FALSE, filePath |-> <<>>, lineNumStr |-> <<>>,
          separator |-> "", content |-> <<>>]

\* lineRegex.FindStringSubmatch(line) for ^([^:]+):(\d+)([:|-])(.*)$ :
\* the first group ends before the first colon, the digits are the longest
\* run after it. [ok, filePath, lineNumStr, separator, content]
FindStringSubmatch(line) ==
    Submatch(line, IndexOf(line, Colon), DigitsEnd(line, IndexOf(line, Colon)))

\* the GrepLine of a matched line and the key it is stored under
MatchedLine(m, rel) ==
    [keep |-> TRUE,
     relPath |-> IF rel.err THEN m.filePath ELSE rel.path,
     grepLine |-> [line_number |-> Atoi(m.lineNumStr),
                   content |-> m.content,
                   is_match |-> m.separator = Colon]]

\* the body of the loop once the regex has returned m
ParseSubmatch(base, line, m) ==
    IF line = <<"-", "-">> \/ ~m.ok
    THEN [keep |-> FALSE]
    ELSE MatchedLine(m, Rel(base, m.filePath))

\* the body of the loop over the lines: [keep, relPath, grepLine]
ParseLine(base, line) == ParseSubmatch(base, line, FindStringSubmatch(line))

\* the lines the loop runs over
OutputLines(output) == Split(TrimSpace(output), Newline)

\* the map store with the line list of the file replaced instead of extended
AppendMatchOverwriting(matches, relPath, grepLine) ==
    [k \in DOMAIN matches \cup {relPath} |->
        IF k = relPath THEN <<grepLine>> ELSE matches[k]]

\* matches[relPath] = append(matches[relPath], grepLine)
AppendMatch(matches, relPath, grepLine) ==
    [k \in DOMAIN matches \cup {relPath} |->
        IF k = relPath
        THEN Append(IF relPath \in DOMAIN matches THEN matches[relPath] ELSE <<>>,
                    grepLine)
        ELSE matches[k]]

\* the map after the loop body has run for a line parsed as r
Store(matches, r) ==
    IF r.keep THEN AppendMatch(matches, r.relPath, r.grepLine) ELSE matches

\* the map the loop over the lines fills
RECURSIVE Accumulate(_, _, _)
Accumulate(base, lines, matches) ==
    IF lines = <<>> THEN matches
    ELSE Accumulate(base, Tail(lines), Store(matches, ParseLine(base, Head(lines))))

\* every order in which a range over a set of map keys can yield them
RECURSIVE KeyOrders(_)
KeyOrders(keys) ==
    IF keys = {} THEN {<<>>}
    ELSE UNION {{<<k>> \o rest : rest \in KeyOrders(keys \ {k})} : k \in keys}

\* the conversion of the map to a slice: Go ranges over a map in an
\* unspecified order, so every order of the keys is a possible outcome
MapRangeOrders(matches) ==
    KeyOrders(DOMAIN matches)

\* the slices the range over the map can build
MapToSlices(matches) ==
    {[i \in 1..Len(order) |-> [file_path |-> order[i], lines |-> matches[order[i]]]] :
     order \in MapRangeOrders(matches)}

\* parseGrepOutput: the set of slices it can return
parseGrepOutput(base, output) ==
    IF output = <<>> THEN {<<>>}
    ELSE MapToSlices(Accumulate(base, OutputLines(output), <<>>))

\* the lines, each ended by a newline
RECURSIVE Unlines(_)
Unlines(lines) ==
    IF lines = <<>> THEN <<>>
    ELSE Head(lines) \o <<Newline>> \o Unlines(Tail(lines))

----------------------------------------------------------------------------
(* grep_search *)

\* the limit of handleGrepSearch on the number of queries
MaxQueries == 20
\* the context lines of a call that gives none
DefaultContextLines == 5

\* executeGrepQuery with the special case of exit status 1 left out
executeGrepQueryNoExit1(base, query, outcome) ==
    IF ~outcome.started \/ outcome.code # 0
    THEN {[err |-> "grep command failed", parsed |-> FALSE,
           result |-> [query |-> query.pattern, matches |-> <<>>, matchesNil |-> TRUE]]}
    ELSE {[err |-> "nil", parsed |-> TRUE,
           result |-> [query |-> query.pattern, matches |-> m, matchesNil |-> FALSE]] :
          m \in parseGrepOutput(base, outcome.output)}

\* executeGrepQuery: the set of [err, result] it can return when cmd.Output()
\* ends with outcome = [started, code, output] (not started: the process could
\* not be run or waited for). parsed: parseGrepOutput was called.
executeGrepQuery(base, query, outcome) ==
    IF ~outcome.started \/ outcome.code # 0
    THEN IF outcome.started /\ outcome.code = 1
         THEN {[err |-> "nil", parsed |-> FALSE,
                result |-> [query |-> query.pattern, matches |-> <<>>,
                            matchesNil |-> FALSE]]}
         ELSE {[err |-> "grep command failed", parsed |-> FALSE,
                result |-> [query |-> query.pattern, matches |-> <<>>,
                            matchesNil |-> TRUE]]}
    ELSE {[err |-> "nil", parsed |-> TRUE,
           result |-> [query |-> query.pattern, matches |-> m, matchesNil |-> FALSE]] :
          m \in parseGrepOutput(base, outcome.output)}

\* the body of the loop of handleGrepSearch for one query: the GrepResults it
\* can store in results[i]. parsed is kept beside the GrepResult.
queryResults(base, query, env) ==
    {IF r.err # "nil"
     THEN [query |-> query.pattern, matches |-> <<>>, matchesNil |-> TRUE,
           error |-> r.err, parsed |-> r.parsed]
     ELSE [query |-> r.result.query, matches |-> r.result.matches,
           matchesNil |-> r.result.matchesNil, error |-> "nil", parsed |-> r.parsed] :
     r \in executeGrepQuery(base, query, env[query.pattern])}

\* the loop of handleGrepSearch, ended at the first query that fails
RECURSIVE searchLoopAbortOnError(_, _, _)
searchLoopAbortOnError(base, queries, env) ==
    IF queries = <<>> THEN {<<>>}
    ELSE UNION {IF r.error # "nil" THEN {<<r>>}
                ELSE {<<r>> \o rest :
                         rest \in searchLoopAbortOnError(base, Tail(queries), env)} :
                r \in queryResults(base, Head(queries), env)}

\* the loop of handleGrepSearch: the result slices it can fill
RECURSIVE searchLoop(_, _, _)
searchLoop(base, queries, env) ==
    IF queries = <<>> THEN {<<>>}
    ELSE {<<r>> \o rest : r \in queryResults(base, Head(queries), env),
                          rest \in searchLoop(base, Tail(queries), env)}

\* the upper limit test on the number of queries, one too strict
TooManyQueriesFrom20(n) == n >= MaxQueries

\* the upper limit test on the number of queries
TooManyQueries(n) == n > MaxQueries

\* handleGrepSearch: the set of results of a call with arguments
\* [queriesIsString, jsonOk, queries, contextGiven, context_lines]. spawned is
\* the number of search processes the call ran.
handleGrepSearch(base, args, env) ==
    IF ~args.queriesIsString
    THEN {[isError |-> TRUE, kind |-> "queries parameter must be a JSON string",
           spawned |-> 0]}
    ELSE IF ~args.jsonOk
    THEN {[isError |-> TRUE, kind |-> "Invalid queries JSON", spawned |-> 0]}
    ELSE IF Len(args.queries) = 0
    THEN {[isError |-> TRUE, kind |-> "At least one search query is required",
           spawned |-> 0]}
    ELSE IF TooManyQueries(Len(args.queries))
    THEN {[isError |-> TRUE, kind |-> "Maximum 20 search queries allowed",
           spawned |-> 0]}
    ELSE {[isError |-> FALSE, kind |-> "search", base_path |-> base,
           context_lines |-> IF args.contextGiven THEN args.context_lines
                             ELSE DefaultContextLines,
           results |-> results, spawned |-> Len(results)] :
          results \in searchLoop(base, args.queries, env)}

\* most queries of a call that are chosen freely; the others repeat a pattern
MaxVaried == 2

SearchPatterns == {"alpha", "beta"}

\* raw output of a search that found lines of one file
FoundOutput ==
    Unlines(<< <<Slash, "b", Slash, "f">> \o <<Colon, "1", Colon, "x">>,
               <<Slash, "b", Slash, "f">> \o <<Colon, "2", "-", "y">> >>)

\* how a run of the search process can end
SearchOutcomes ==
    { [started |-> FALSE, code |-> 0, output |-> <<>>],
      [started |-> TRUE, code |-> 0, output |-> <<>>],
      [started |-> TRUE, code |-> 0, output |-> FoundOutput],
      [started |-> TRUE, code |-> 1, output |-> <<>>],
      [started |-> TRUE, code |-> 2, output |-> FoundOutput] }

\* n queries for the same pattern
Repeated(pattern, n) == [i \in 1..n |-> [pattern |-> pattern]]

\* the decoded query lists of the model: up to MaxVaried free queries, then
\* repetitions, from no query to one more than the limit
QueryLists ==
    {[i \in 1..Len(ps) |-> [pattern |-> ps[i]]] \o Repeated("alpha", n) :
        ps \in LinesUpTo(SearchPatterns, MaxVaried), n \in 0..(MaxQueries + 1)}

SearchRequests ==
    {[tool |-> "grep_search", queriesIsString |-> FALSE, jsonOk |-> FALSE,
      queries |-> <<>>, contextGiven |-> FALSE, context_lines |-> 0],
     [tool |-> "grep_search", queriesIsString |-> TRUE, jsonOk |-> FALSE,
      queries |-> <<>>, contextGiven |-> FALSE, context_lines |-> 0]}
    \cup {[tool |-> "grep_search", queriesIsString |-> TRUE, jsonOk |-> TRUE,
           queries |-> qs, contextGiven |-> c.given, context_lines |-> c.lines] :
          qs \in {q \in QueryLists : Len(q) <= MaxQueries + 1},
          c \in {[given |-> FALSE, lines |-> 0], [given |-> TRUE, lines |-> 0]}}

InitSearch ==
    /\ basePath = <<Slash, "b">>
    /\ maxFileSize = 1
    /\ entries = {}
    /\ gitignore = [present |-> FALSE, lines |-> <<>>]
    /\ grepEnv \in [SearchPatterns -> SearchOutcomes]
    /\ filter = <<>>
    /\ request \in SearchRequests
    /\ response = NoResponse

GrepSearch ==
    /\ response = NoResponse
    /\ request.tool = "grep_search"
    /\ response' \in handleGrepSearch(basePath, request, grepEnv)
    /\ UNCHANGED <<basePath, maxFileSize, entries, gitignore, grepEnv, filter, request>>

NextSearch == GrepSearch

SpecSearch == InitSearch /\ [][NextSearch]_vars

----------------------------------------------------------------------------
(* The parser on its own: applied to a raw output of the search process *)

\* longest raw output made of arbitrary characters
MaxRawLen == 5
\* most lines of a raw output made of record lines
MaxOutLines == 3

RawAlphabet == {"f", Colon, "-", "|", "1", Newline}

\* record and other lines a search process prints for files below /b
RecordLines ==
    {file \o <<Colon>> \o num \o <<sep>> \o <<"x">> :
        file \in {<<Slash, "b", Slash, "f">>, <<Slash, "b", Slash, "g">>,
                  <<Slash, "b", Slash, Slash, "f">>},
        num \in {<<"1">>, <<"2">>},
        sep \in {Colon, "-"}}
    \cup {<<"-", "-">>, <<>>}

RawOutputs ==
    StringsUpTo(RawAlphabet, MaxRawLen)
    \cup {Unlines(ls) : ls \in LinesUpTo(RecordLines, MaxOutLines)}

InitParse ==
    /\ basePath = <<Slash, "b">>
    /\ maxFileSize = 1
    /\ entries = {}
    /\ gitignore = [present |-> FALSE, lines |-> <<>>]
    /\ grepEnv = <<>>
    /\ filter = <<>>
    /\ request \in [tool : {"parseGrepOutput"}, output : RawOutputs]
    /\ response = NoResponse

\* matches, err := s.parseGrepOutput(output)
ParseGrepOutput ==
    /\ response = NoResponse
    /\ request.tool = "parseGrepOutput"
    /\ \E matches \in parseGrepOutput(basePath, request.output) :
          response' = [isError |-> FALSE, kind |-> "matches", matches |-> matches]
    /\ UNCHANGED <<basePath, maxFileSize, entries, gitignore, grepEnv, filter, request>>

NextParse == ParseGrepOutput

SpecParse == InitParse /\ [][NextParse]_vars

----------------------------------------------------------------------------
(* Properties of the path guard *)

\* the path has a parent-directory element ".."
HasParentSegment(p) ==
    \E i \in 1..Len(Split(p, Slash)) : Split(p, Slash)[i] = DotDot

IsRelative(p) == p = <<>> \/ p[1] # Slash

\* p is base itself or lies below it: base followed by a separator is a
\* prefix of p (the root directory already ends with its separator), and no
\* element of p leads up again
LexicallyWithin(base, p) ==
    LET baseSep == IF base[Len(base)] = Slash THEN base ELSE base \o <<Slash>>
    IN  /\ p = base \/ HasPrefix(p, baseSep)
        /\ ~HasParentSegment(p)

Answered == response # NoResponse

\* C1 (as claimed): a relative file_path with a ".." element anywhere, also
\* one that normalization collapses away, is answered with the path guard's
\* error and never resolved.
C1_AnyParentSegmentRejected ==
    (/\ Answered
     /\ request.hasArg
     /\ IsRelative(request.file_path)
     /\ HasParentSegment(request.file_path))
    => (response.isError /\ response.kind = "Invalid file path")

\* C2: whenever the path guard succeeds, the path that read_file_contents
\* stats and reads is the base directory or lies lexically below it, and the
\* guard succeeds exactly when a path is touched.
C2_ResolvedPathWithinBase ==
    Answered =>
        /\ response.touched # <<>> => LexicallyWithin(basePath, response.touched)
        /\ (request.hasArg /\ response.kind # "Invalid file path")
              => response.touched # <<>>

\* C2 witness: an absolute argument with "." elements is resolved to a path
\* strictly below the base directory and read.
C2_Witness ==
    /\ Answered
    /\ response.kind = "contents"
    /\ HasPrefix(request.file_path, <<Slash>>)
    /\ Contains(request.file_path, <<Slash, ".", Slash>>)
    /\ response.touched # basePath

----------------------------------------------------------------------------
(* Properties of the ignore filter and the tree builder *)

\* the nodes of a built tree
RECURSIVE Nodes(_)
Nodes(node) ==
    IF node.nil THEN {}
    ELSE {node} \cup UNION {Nodes(node.children[i]) : i \in 1..Len(node.children)}

\* the built tree has a node for the entry with these path elements
Listed(structure, elems) ==
    \E n \in Nodes(structure) : n.path = StringsJoin(elems, Slash)

StructureReturned == Answered /\ response.kind = "structure"

SecretName == <<"s", "e", "c", "r", "e", "t">>
ATxtName == <<"a", ".", "t", "x", "t">>

\* C3: no node of the returned tree is named ".git" or has a ".git" element
\* in its path, whatever the ignore file holds.
C3_GitNeverListed ==
    StructureReturned =>
        \A n \in Nodes(response.structure) :
            /\ n.name # GitName
            /\ \A i \in 1..Len(Split(n.path, Slash)) : Split(n.path, Slash)[i] # GitName

\* C3 witness: the tree holds a ".git" directory with an entry in it and the
\* ignore file holds the line "!.git"; the returned tree lists other entries.
C3_Witness ==
    /\ StructureReturned
    /\ \E e \in entries : Len(e.path) = 2 /\ e.path[1] = GitName
    /\ gitignore.present
    /\ \E i \in 1..Len(gitignore.lines) : gitignore.lines[i] = <<"!">> \o GitName
    /\ ~response.structure.nil
    /\ response.structure.children # <<>>

\* the directory patterns ("p/") the ignore file gives the filter, without
\* their trailing separator
DirPatterns(gi) ==
    {TrimSuffix(TrimSpace(gi.lines[i]), <<Slash>>) :
        i \in {j \in 1..Len(gi.lines) :
                  LET l == TrimSpace(gi.lines[j])
                  IN  /\ HasSuffix(l, <<Slash>>)
                      /\ ~HasPrefix(l, <<"#">>)
                      /\ ~HasPrefix(l, <<"!">>)}}

\* C4 (as claimed): for a pattern "p/" of the ignore file, ShouldIgnore holds
\* of every entry whose name matches p or that has a directory named p above
\* it, and none of them is listed; and with the line "secret/" and a tree
\* holding the file a.txt and an entry below secret, the returned tree lists
\* a.txt and neither secret nor anything below it.
C4_DirectoryPattern ==
    StructureReturned =>
        /\ \A p \in DirPatterns(gitignore), e \in entries :
              (\/ Match(p, e.path[Len(e.path)])
               \/ \E i \in 1..(Len(e.path) - 1) : e.path[i] = p)
              => /\ ShouldIgnore(filter, basePath, AbsPath(basePath, e.path))
                 /\ ~Listed(response.structure, e.path)
        /\ (/\ SecretName \in DirPatterns(gitignore)
            /\ \E e \in entries : e.path = <<ATxtName>> /\ ~e.dir
            /\ \E e \in entries : Len(e.path) = 2 /\ e.path[1] = SecretName)
           => /\ Listed(response.structure, <<ATxtName>>)
              /\ \A n \in Nodes(response.structure) :
                    n.name # SecretName /\ ~HasPrefix(n.path, SecretName)

\* C13 (as claimed): whenever the structure request returns a structure, its
\* root is a present directory node with the empty path, whatever the base
\* directory is called and whatever the ignore file holds.
C13_RootAlwaysPresent ==
    StructureReturned =>
        /\ ~response.structure.nil
        /\ response.structure.type = "directory"
        /\ response.structure.path = <<>>

\* the ignore file without the lines that begin with "!"
WithoutNegation(gi) ==
    [gi EXCEPT !.lines = SelectSeq(@, LAMBDA l : ~HasPrefix(l, <<"!">>))]

----------------------------------------------------------------------------
(* Properties of grep_search *)

SearchAnswered == Answered /\ request.tool = "grep_search"

\* the call carries a decodable list of queries
Decoded == request.queriesIsString /\ request.jsonOk

\* the run of the search process for the query failed: it could not be run
\* or waited for, or it ended with a status other than 0 and 1
ProcessFailed(query) ==
    LET o == grepEnv[query.pattern]
    IN  ~o.started \/ o.code \notin {0, 1}

\* C6: a call with 1 to 20 queries succeeds with one result per query, in the
\* order of the queries, each echoing its query's pattern; a result carries an
\* error exactly when its own query's search process failed.
C6_OneResultPerQuery ==
    (/\ SearchAnswered
     /\ Decoded
     /\ Len(request.queries) \in 1..MaxQueries)
    => /\ ~response.isError
       /\ Len(response.results) = Len(request.queries)
       /\ \A i \in 1..Len(request.queries) :
             /\ response.results[i].query = request.queries[i].pattern
             /\ response.results[i].error # "nil" <=> ProcessFailed(request.queries[i])

\* C6 witness: the second of at least three queries fails, the first and the
\* third do not, and each result is at its query's index.
C6_Witness ==
    /\ SearchAnswered
    /\ ~response.isError
    /\ Len(response.results) >= 3
    /\ response.results[1].error = "nil"
    /\ response.results[2].error # "nil"
    /\ response.results[3].error = "nil"
    /\ response.results[3].matches # <<>>

\* C7: a call with no query, with more than 20 queries, with a query list
\* that cannot be decoded or that is no string fails as a whole and runs no
\* search process; a call with exactly 20 queries succeeds.
C7_QueryCountLimits ==
    SearchAnswered =>
        /\ (~Decoded \/ Len(request.queries) = 0 \/ Len(request.queries) > MaxQueries)
              => (response.isError /\ response.spawned = 0)
        /\ (Decoded /\ Len(request.queries) = MaxQueries) => ~response.isError

\* C7 witness: a call with exactly 20 queries has succeeded and run 20
\* search processes.
C7_Witness ==
    /\ SearchAnswered
    /\ Len(request.queries) = MaxQueries
    /\ ~response.isError
    /\ response.spawned = MaxQueries

\* C8: per query, exit status 1 gives an empty matches list and no error; a
\* process that could not be run or waited for, or any other non-zero status,
\* gives an error and no matches; the parser is reached exactly for exit
\* status 0; no result has both an error and a non-empty matches list.
C8_ExitStatusDecidesShape ==
    (SearchAnswered /\ ~response.isError) =>
        \A i \in 1..Len(response.results) :
            LET o == grepEnv[request.queries[i].pattern]
                r == response.results[i]
            IN  /\ (o.started /\ o.code = 1)
                      => (r.error = "nil" /\ r.matches = <<>> /\ ~r.matchesNil)
                /\ (~o.started \/ o.code \notin {0, 1})
                      => (r.error # "nil" /\ r.matches = <<>> /\ r.matchesNil)
                /\ r.parsed <=> (o.started /\ o.code = 0)
                /\ ~(r.error # "nil" /\ r.matches # <<>>)

\* C8 witness: one call holds a result for a process that ended with status 1
\* and a result for a process that ended with status 2 after printing lines.
C8_Witness ==
    /\ SearchAnswered
    /\ ~response.isError
    /\ \E i, j \in 1..Len(response.results) :
          /\ grepEnv[request.queries[i].pattern].code = 1
          /\ response.results[i].error = "nil"
          /\ grepEnv[request.queries[j].pattern].code = 2
          /\ grepEnv[request.queries[j].pattern].output # <<>>
          /\ response.results[j].error # "nil"

----------------------------------------------------------------------------
(* Properties of the parser *)

\* the keys in the order the loop met them first
RECURSIVE FirstSeenOrder(_, _, _)
FirstSeenOrder(base, lines, seen) ==
    IF lines = <<>> THEN seen
    ELSE LET r == ParseLine(base, Head(lines))
         IN  IF r.keep /\ ~\E i \in 1..Len(seen) : seen[i] = r.relPath
             THEN FirstSeenOrder(base, Tail(lines), Append(seen, r.relPath))
             ELSE FirstSeenOrder(base, Tail(lines), seen)


Parsed == Answered /\ response.kind = "matches"

\* C9 (as claimed): the file groups of matches are in the order in which the
\* raw output first mentions each file.
C9_FirstSeenOrder ==
    Parsed =>
        [i \in 1..Len(response.matches) |-> response.matches[i].file_path]
            = FirstSeenOrder(basePath, OutputLines(request.output), <<>>)

\* the line has the shape <file-path>":"<line-number><sep2><content> with
\* sep2 one of seps; the file path holds no colon
HasRecordShape(line, seps) ==
    \E c \in 2..Len(line), d \in 2..Len(line) :
        /\ c < d
        /\ \A j \in 1..(c - 1) : line[j] # Colon
        /\ line[c] = Colon
        /\ \A j \in (c + 1)..(d - 1) : line[j] \in Digits
        /\ d > c + 1
        /\ line[d] \in seps

\* number of GrepLines of a result
KeptCount(matches) ==
    LET RECURSIVE total(_)
        total(ms) == IF ms = <<>> THEN 0 ELSE Len(Head(ms).lines) + total(Tail(ms))
    IN  total(matches)

\* number of lines of the raw output of record shape with the given sep2
RECURSIVE ShapeCount(_, _)
ShapeCount(lines, seps) ==
    IF lines = <<>> THEN 0
    ELSE (IF HasRecordShape(Head(lines), seps) THEN 1 ELSE 0)
         + ShapeCount(Tail(lines), seps)

\* number of GrepLines of a result with is_match = flag
IsMatchCount(matches, flag) ==
    LET RECURSIVE total(_)
        total(ms) ==
            IF ms = <<>> THEN 0
            ELSE Len(SelectSeq(Head(ms).lines, LAMBDA l : l.is_match = flag))
                 + total(Tail(ms))
    IN  total(matches)

\* C10 (as claimed): the kept lines are exactly the lines of record shape with
\* sep2 ":" or "-"; those with ":" are the GrepLines with is_match = true,
\* those with "-" the GrepLines with is_match = false; no other line, whatever
\* stands in the place of sep2, gives a GrepLine.
C10_KeptLinesAndFlags ==
    Parsed =>
        LET lines == OutputLines(request.output)
        IN  /\ KeptCount(response.matches) = ShapeCount(lines, {Colon, "-"})
            /\ IsMatchCount(response.matches, TRUE) = ShapeCount(lines, {Colon})
            /\ IsMatchCount(response.matches, FALSE) = ShapeCount(lines, {"-"})

\* the decoded lines the loop keeps, in the order of the raw output
KeptLines(base, lines) ==
    SelectSeq([i \in 1..Len(lines) |-> ParseLine(base, lines[i])],
              LAMBDA r : r.keep)

\* the GrepLines among kept that belong to the file with the given key
LinesOfFile(kept, key) ==
    LET own == SelectSeq(kept, LAMBDA r : r.relPath = key)
    IN  [i \in 1..Len(own) |-> own[i].grepLine]

\* C12: in the matches parseGrepOutput returns no file path has two groups,
\* every kept line's file has a group, the lines of a group are the kept
\* lines of its file in the order of the raw output, repeated lines
\* included, and the groups hold as many lines as were kept.
C12_GroupingLossless ==
    Parsed =>
        LET kept == KeptLines(basePath, OutputLines(request.output))
            ms == response.matches
        IN  /\ \A i, j \in 1..Len(ms) : ms[i].file_path = ms[j].file_path => i = j
            /\ \A i \in 1..Len(kept) :
                  \E j \in 1..Len(ms) : ms[j].file_path = kept[i].relPath
            /\ \A j \in 1..Len(ms) :
                  /\ ms[j].lines # <<>>
                  /\ ms[j].lines = LinesOfFile(kept, ms[j].file_path)
            /\ KeptCount(ms) = Len(kept)

\* C12 witness: two groups, one of them with the same line twice, taken from
\* around a line of the other file.
C12_Witness ==
    /\ Parsed
    /\ Len(response.matches) = 2
    /\ \E j \in 1..2 :
          /\ Len(response.matches[j].lines) = 2
          /\ response.matches[j].lines[1] = response.matches[j].lines[2]
    /\ LET kept == KeptLines(basePath, OutputLines(request.output))
       IN  Len(kept) = 3 /\ kept[1].relPath = kept[3].relPath
                         /\ kept[1].relPath # kept[2].relPath

----------------------------------------------------------------------------
(* Properties of the size limit of read_file_contents *)

ContentsReturned == Answered /\ response.kind = "contents"

TooLarge == Answered /\ response.kind = "File too large"

\* C11 (as claimed): a file whose size S is at most the configured maximum
\* is never refused as too large, a file with S above it is, without content;
\* and in every successful response the content is no longer than the
\* maximum and exactly as long as size_bytes says.
C11_SizeRoundTrip ==
    /\ TooLarge =>
          /\ response.stat_size > maxFileSize
          /\ "content" \notin DOMAIN response
    /\ ContentsReturned =>
          /\ response.size_bytes <= maxFileSize
          /\ Len(response.content) <= maxFileSize
          /\ Len(response.content) = response.size_bytes

====
